---- MODULE Spec2Model ----
(***************************************************************************)
(* Model of the two Monte-Carlo tree searches of agent.h:                  *)
(*   - MCTSAgent::take_action  (UCT + RAVE tree, count-and-clock loop)     *)
(*   - player::mcts_action     (classical UCT tree of class Node)          *)
(* The board (board.h) is not part of the sources at hand; its rules are   *)
(* taken from the NoGo rules of the specification: a point is legal for a  *)
(* side iff it is empty and the placement leaves every group of either     *)
(* colour with at least one liberty.                                       *)
(***************************************************************************)
EXTENDS Integers, Sequences, FiniteSets, TLC

(***************************************************************************)
(* Bounds.  The program's board is 9 by 9, its playout floor 50 000, its   *)
(* clock threshold one second and its clock poll every 100 iterations;     *)
(* the model keeps the structure and scales the numbers.                   *)
(***************************************************************************)
\* board::size_x, board::size_y (9 and 9 in the program)
size_x == 2
size_y == 2
\* largest iteration budget T given to player::mcts_action
MaxT == 7
\* time budgets (t_limit, in clock ticks) given to player::mcts_action
MaxTimeLimit == 5
\* an iteration takes one tick of the clock (fast) or MaxTick ticks (slow)
MaxTick == 2
\* seeds of the pseudo random generator
MaxSeed == 1
\* "50000" of MCTSAgent::take_action, scaled
MinPlayouts == 3
\* threshold_time (one second) in clock ticks, scaled
threshold_time == 5
\* "i % 100" of player::mcts_action, scaled
CheckPeriod == 3

NumPoints == size_x * size_y
Points == 0 .. (NumPoints - 1)

\* piece types of board.h
empty == 0
black == 1
white == 2

Other(who) == 3 - who

(***************************************************************************)
(* Board rules.                                                            *)
(***************************************************************************)
Neighbours(p) ==
    LET x == p % size_x
        y == p \div size_x
    IN  {q \in Points :
            LET qx == q % size_x
                qy == q \div size_x
            IN  \/ (qx = x /\ (qy = y + 1 \/ qy + 1 = y))
                \/ (qy = y /\ (qx = x + 1 \/ qx + 1 = x))}

RECURSIVE Flood(_, _, _)
Flood(stone, seen, frontier) ==
    IF frontier = {} THEN seen
    ELSE LET nxt == {q \in Points : /\ q \notin seen
                                    /\ \E p \in frontier : /\ q \in Neighbours(p)
                                                           /\ stone[q] = stone[p]}
         IN  Flood(stone, seen \cup nxt, nxt)

\* the group (maximal connected set of same-colour stones) holding point p
Group(stone, p) == Flood(stone, {p}, {p})

Liberties(stone, g) ==
    {q \in Points : stone[q] = empty /\ \E p \in g : q \in Neighbours(p)}

\* every group on the board has at least one liberty
NoDeadGroup(stone) ==
    \A p \in Points : stone[p] # empty => Liberties(stone, Group(stone, p)) # {}

IsLegal(stone, who, p) ==
    /\ p \in Points
    /\ stone[p] = empty
    /\ LET after == [stone EXCEPT ![p] = who]
       IN  /\ Liberties(after, Group(after, p)) # {}
           /\ \A q \in Neighbours(p) :
                 after[q] = Other(who) => Liberties(after, Group(after, q)) # {}

LegalSet(stone, who) == {p \in Points : IsLegal(stone, who, p)}


\* board::place: the stone is put down only when the placement is legal;
\* the side to move passes to the opponent after a legal placement
place(board, who, p) ==
    IF IsLegal(board.stone, who, p)
    THEN [stone |-> [board.stone EXCEPT ![p] = who],
          who_take_turns |-> Other(who)]
    ELSE board

RECURSIVE SetToSeq(_)
SetToSeq(S) ==
    IF S = {} THEN <<>>
    ELSE LET m == CHOOSE x \in S : \A y \in S : x <= y
         IN  <<m>> \o SetToSeq(S \ {m})

\* board::get_legal_pts: the legal points of a side, lowest index first
get_legal_pts(board, who) == SetToSeq(LegalSet(board.stone, who))

has_legal_move(board, who) == LegalSet(board.stone, who) # {}

(***************************************************************************)
(* Pseudo random generator: a deterministic function of its state.        *)
(***************************************************************************)
NextRng(x) == (5 * x + 3) % 64

\* a number in 0 .. k-1 drawn from generator state x
Draw(x, k) == (x \div 4) % k

\* board::random_move_from_board: the r-th set bit, r drawn in [0, popcount)
random_move_from_board(bits, x) == SetToSeq(bits)[Draw(x, Cardinality(bits)) + 1]

(***************************************************************************)
(* Fixed point arithmetic for the scores.                                  *)
(***************************************************************************)
RECURSIVE ISqrtBetween(_, _, _)
ISqrtBetween(n, lo, hi) ==
    IF lo >= hi THEN lo
    ELSE LET mid == (lo + hi + 1) \div 2
         IN  IF mid * mid <= n THEN ISqrtBetween(n, mid, hi)
             ELSE ISqrtBetween(n, lo, mid - 1)

\* floor of the square root
ISqrt(n) == ISqrtBetween(n, 0, 46340)

\* 10^4 * ln(n) for n in 1 .. 24
LnTable ==
    << 0, 6931, 10986, 13863, 16094, 17918, 19459, 20794, 21972, 23026,
       23979, 24849, 25649, 26391, 27081, 27726, 28332, 28904, 29444, 29957,
       30445, 30910, 31355, 31781 >>

\* 10^4 * log2(n) for n in 1 .. 24
Log2Table ==
    << 0, 10000, 15850, 20000, 23219, 25850, 28074, 30000, 31699, 33219,
       34594, 35850, 37004, 38074, 39069, 40000, 40875, 41699, 42479, 43219,
       43923, 44594, 45236, 45850 >>

(***************************************************************************)
(* class MCTSAgent::Node.  The tree is an arena: nodes[k] is the node with *)
(* identity k, 0 stands for nullptr, the root is nodes[1].                 *)
(***************************************************************************)
nullptr == 0
root == 1

\* the "no point" index of MCTSAgent (81 in the program: one past the board)
NullPos == NumPoints

\* the stone colour of side bw (0 or 1) of MCTSAgent
Piece(bw) == bw + 1

\* the identities first, first + 1, .. of count nodes allocated together
RECURSIVE NewIds(_, _)
NewIds(first, count) ==
    IF count = 0 THEN <<>> ELSE <<first>> \o NewIds(first + 1, count - 1)

\* a default constructed MCTSAgent::Node after init(bw, pos, parent)
AgentNode(bw, pos, parent) ==
    [bw_ |-> bw, pos_ |-> pos, parent_ |-> parent, children_ |-> <<>>,
     is_leaf_ |-> FALSE,
     wins_ |-> 0, visits_ |-> 0, rave_wins_ |-> 10, rave_visits_ |-> 20]

has_children(nodes, n) == Len(nodes[n].children_) > 0

\* log_visits_ is std::log(visits_) after every update, 0.f before the first
log_visits(nd) == IF nd.visits_ = 0 THEN 0 ELSE LnTable[nd.visits_]

\* the score of select_child in units of 10^-6
Score(nodes, n, c) ==
    LET child == nodes[c]
        explore == ISqrt(625 * log_visits(nodes[n]) * child.visits_)
    IN  (1000000 * (child.rave_wins_ + child.wins_) + 100 * explore)
            \div (child.rave_visits_ + child.visits_)

\* the first loop of select_child: max_score after children i .. size
RECURSIVE MaxScore(_, _, _, _)
MaxScore(nodes, n, i, max_score) ==
    IF i > Len(nodes[n].children_) THEN max_score
    ELSE LET score == Score(nodes, n, nodes[n].children_[i])
         IN  MaxScore(nodes, n, i + 1,
                      IF score - max_score > 100 THEN score ELSE max_score)

\* the second loop of select_child: the indices set in max_children
MaxChildren(nodes, n) ==
    LET max_score == MaxScore(nodes, n, 1, -1000000)
    IN  {i \in 1 .. Len(nodes[n].children_) :
            Score(nodes, n, nodes[n].children_[i]) - max_score > -100}

\* Node::select_child: the child chosen, and the generator after the draw
select_child(nodes, n, rng) ==
    LET idx == random_move_from_board(MaxChildren(nodes, n), rng)
        c == nodes[n].children_[idx]
    IN  [child |-> c, bw |-> nodes[c].bw_, pos |-> nodes[c].pos_,
         rng |-> NextRng(rng)]

\* the side whose replies Node::expand generates
ExpandSide(nd) == 1 - nd.bw_

\* an expansion that does not wait for the first visit of the node
ExpandWith_OnFirstVisit(nodes, n, moves) ==
    IF nodes[n].is_leaf_
    THEN [nodes |-> nodes, expanded |-> FALSE]
    ELSE LET size == Len(moves)
         IN  IF size = 0
             THEN [nodes |-> [nodes EXCEPT ![n].is_leaf_ = TRUE],
                   expanded |-> FALSE]
             ELSE [nodes |->
                     [nodes EXCEPT ![n].children_ =
                                       NewIds(Len(nodes) + 1, size)]
                     \o [i \in 1 .. size |->
                           AgentNode(ExpandSide(nodes[n]), moves[i], n)],
                   expanded |-> TRUE]

\* Node::expand with the moves given: [nodes, expanded]
ExpandWith(nodes, n, moves) ==
    IF nodes[n].visits_ = 0 \/ nodes[n].is_leaf_
    THEN [nodes |-> nodes, expanded |-> FALSE]
    ELSE LET size == Len(moves)
         IN  IF size = 0
             THEN [nodes |-> [nodes EXCEPT ![n].is_leaf_ = TRUE],
                   expanded |-> FALSE]
             ELSE [nodes |->
                     [nodes EXCEPT ![n].children_ =
                                       NewIds(Len(nodes) + 1, size)]
                     \o [i \in 1 .. size |->
                           AgentNode(ExpandSide(nodes[n]), moves[i], n)],
                   expanded |-> TRUE]

\* an expansion that takes every empty point for a legal move
expand_AnyEmptyPoint(nodes, n, board) ==
    ExpandWith(nodes, n, SetToSeq({p \in Points : board.stone[p] = empty}))

\* Node::expand: the children are the legal points of the other side
expand(nodes, n, board) ==
    ExpandWith(nodes, n, get_legal_pts(board, Piece(ExpandSide(nodes[n]))))

\* the rave loop of Node::update over the children i .. size of node n
\* a rave loop without the BIT_TEST of the child's point
RECURSIVE RaveUpdate_AllChildren(_, _, _, _, _)
RaveUpdate_AllChildren(nodes, n, i, cwin, rave) ==
    IF i > Len(nodes[n].children_) THEN nodes
    ELSE LET c == nodes[n].children_[i]
         IN  RaveUpdate_AllChildren(
                 [nodes EXCEPT ![c].rave_visits_ = @ + 1,
                               ![c].rave_wins_ = @ + cwin],
                 n, i + 1, cwin, rave)

RECURSIVE RaveUpdate(_, _, _, _, _)
RaveUpdate(nodes, n, i, cwin, rave) ==
    IF i > Len(nodes[n].children_) THEN nodes
    ELSE LET c == nodes[n].children_[i]
         IN  RaveUpdate(IF nodes[c].pos_ \in rave
                        THEN [nodes EXCEPT ![c].rave_visits_ = @ + 1,
                                           ![c].rave_wins_ = @ + cwin]
                        ELSE nodes,
                        n, i + 1, cwin, rave)

\* an update that counts a win twice
update_WinCountedTwice(nodes, n, winner, raves) ==
    LET nd == nodes[n]
        cwin == IF winner = 1 - nd.bw_ THEN 1 ELSE 0
    IN  RaveUpdate([nodes EXCEPT ![n].visits_ = @ + 1,
                                 ![n].wins_ = @ + (IF winner = nd.bw_ THEN 2 ELSE 0)],
                   n, 1, cwin, raves[1 - nd.bw_])

\* Node::update of node n: its own statistics and the rave statistics of
\* its children
update(nodes, n, winner, raves) ==
    LET nd == nodes[n]
        cwin == IF winner = 1 - nd.bw_ THEN 1 ELSE 0
    IN  RaveUpdate([nodes EXCEPT ![n].visits_ = @ + 1,
                                 ![n].wins_ = @ + (IF winner = nd.bw_ THEN 1 ELSE 0)],
                   n, 1, cwin, raves[1 - nd.bw_])

\* Node::get_children_visits: pos -> visits of the children visited
get_children_visits(nodes, n) ==
    LET kids == {c \in {nodes[n].children_[i] : i \in 1 .. Len(nodes[n].children_)} :
                    nodes[c].visits_ > 0}
    IN  [p \in {nodes[c].pos_ : c \in kids} |->
            nodes[CHOOSE c \in kids : nodes[c].pos_ = p].visits_]

(***************************************************************************)
(* The phases of one iteration of MCTSAgent::take_action, on the record    *)
(* st of its locals: nodes (the tree), node, board, cbw, cpos, rave,       *)
(* winner, rng (engine_).                                                  *)
(***************************************************************************)
NoRave == [s \in {0, 1} |-> {}]

\* "node = select_child(engine_, cbw, cpos); board.place(cbw, cpos);
\*  rave[cbw].set(cpos);"
SelectAndPlace(st) ==
    LET s == select_child(st.nodes, st.node, st.rng)
    IN  [st EXCEPT !.node = s.child, !.cbw = s.bw, !.cpos = s.pos,
                   !.board = place(@, Piece(s.bw), s.pos),
                   !.rave = [@ EXCEPT ![s.bw] = @ \cup {s.pos}],
                   !.rng = s.rng, !.plies = @ + 1]

\* the locals of take_action before its loop: "total_counts = 0,
\* cbw = 1 - bw, cpos = 81; Node root; root.init_bw(1 - bw);"
AgentStart(position, side, engine) ==
    [nodes |-> << AgentNode(1 - side, NullPos, nullptr) >>, node |-> nullptr,
     board |-> position, cbw |-> 1 - side, cpos |-> NullPos, rave |-> NoRave,
     winner |-> 0, rng |-> engine, ok |-> TRUE, plies |-> 0]

\* the iteration goes on with the board of the previous iteration
AgentIterationStart_KeepsBoard(st, b) ==
    [st EXCEPT !.node = root, !.rave = NoRave, !.plies = 0]

\* "Node* node = &root; board board(b); std::array<board_t, 2> rave;"
AgentIterationStart(st, b) ==
    [st EXCEPT !.node = root, !.board = b, !.rave = NoRave, !.plies = 0]

RECURSIVE AgentSelection(_)
AgentSelection(st) ==
    IF has_children(st.nodes, st.node)
    THEN AgentSelection(SelectAndPlace(st))
    ELSE st

AgentExpansion(st) ==
    LET e == expand(st.nodes, st.node, st.board)
    IN  IF e.expanded
        THEN SelectAndPlace([st EXCEPT !.nodes = e.nodes])
        ELSE [st EXCEPT !.nodes = e.nodes]

\* the stones of a group the placement of side who at p would form, counted
\* by liberties
LibertiesAfter(stone, who, p) ==
    LET after == [stone EXCEPT ![p] = who]
    IN  Cardinality(Liberties(after, Group(after, p)))

\* board::get_two_go: per side, the empty points whose placement yields a
\* group with two liberties or more
get_two_go(board) ==
    [s \in {0, 1} |->
        {p \in Points : /\ board.stone[p] = empty
                        /\ LibertiesAfter(board.stone, Piece(s), p) >= 2}]

\* board::heuristic_legal_move: a random legal point of the two-go points
\* when there is one, else a random legal point
heuristic_legal_move(board, bw, init_two_go, rng) ==
    LET legal == LegalSet(board.stone, Piece(bw))
        safe == legal \cap init_two_go[bw]
    IN  IF safe # {}
        THEN [pos |-> random_move_from_board(safe, rng), is_two_go |-> TRUE]
        ELSE [pos |-> random_move_from_board(legal, rng), is_two_go |-> FALSE]

RECURSIVE AgentPlayout(_, _)
AgentPlayout(st, init_two_go) ==
    IF has_legal_move(st.board, Piece(1 - st.cbw))
    THEN LET bw == 1 - st.cbw
             h == heuristic_legal_move(st.board, bw, init_two_go, st.rng)
         IN  AgentPlayout(
                 [st EXCEPT !.cbw = bw, !.cpos = h.pos,
                            !.board = place(@, Piece(bw), h.pos),
                            !.rave = IF h.is_two_go
                                     THEN [@ EXCEPT ![bw] = @ \cup {h.pos}]
                                     ELSE @,
                            !.rng = NextRng(@), !.plies = @ + 1],
                 init_two_go)
    ELSE st

\* a simulation that reports the side left without a move as the winner
AgentSimulation_LoserWins(st) ==
    LET end == AgentPlayout(st, get_two_go(st.board))
    IN  [end EXCEPT !.winner = 1 - end.cbw]

\* "simulation": the playout, then "size_t winner = cbw;"
AgentSimulation(st) ==
    LET end == AgentPlayout(st, get_two_go(st.board))
    IN  [end EXCEPT !.winner = end.cbw]

\* a backpropagation that updates the selected node only
AgentBackpropagation_SelectedOnly(st) ==
    IF st.node # nullptr
    THEN [st EXCEPT !.nodes = update(st.nodes, st.node, st.winner, st.rave),
                    !.node = nullptr]
    ELSE st

RECURSIVE AgentBackpropagation(_)
AgentBackpropagation(st) ==
    IF st.node # nullptr
    THEN AgentBackpropagation(
             [st EXCEPT !.nodes = update(st.nodes, st.node, st.winner, st.rave),
                        !.node = st.nodes[st.node].parent_])
    ELSE st

\* a take_action that goes on searching a position without a legal move
NoLegalMoveAtRoot_Skipped(position, side) == FALSE

\* "if (!b.has_legal_move(bw))" at the entry of take_action
NoLegalMoveAtRoot(position, side) == ~has_legal_move(position, Piece(side))

\* a loop that runs a single iteration
AgentContinue_Never(total_counts, elapsed) == FALSE

\* a loop that stops as soon as one of the two conditions fails
AgentContinue_And(total_counts, elapsed) ==
    total_counts < MinPlayouts /\ elapsed < threshold_time

\* the loop condition of take_action, with total_counts already incremented
AgentContinue(total_counts, elapsed) ==
    total_counts < MinPlayouts \/ elapsed < threshold_time

\* the keys of the visits map that std::max_element may return: the map is
\* unordered, so among the positions of maximal visits the first one in its
\* iteration order is any of them; on an empty map the result is undefined
AgentBestMoves(nodes) ==
    LET visits == get_children_visits(nodes, root)
    IN  IF DOMAIN visits = {}
        THEN 0 .. NullPos
        ELSE {p \in DOMAIN visits : \A q \in DOMAIN visits : visits[q] <= visits[p]}

(***************************************************************************)
(* class Node, the tree of player::mcts_action.  Same arena; a point is    *)
(* its index, NoPoint stands for board::point(-1, -1).                     *)
(***************************************************************************)
NoPoint == 0 - 1

\* the null action, action()
NoAction == 0 - 1

\* Node(parent, who, pos)
TreeNode(parent, who, pos) ==
    [parent |-> parent, visits |-> 0, wins |-> 0, who |-> who, pos |-> pos,
     children |-> <<>>, is_leaf |-> FALSE, is_expanded |-> FALSE]

\* child->ucb in units of 10^-5, for a child with visits >= 1
Ucb(nodes, n, c) ==
    (100000 * nodes[c].wins) \div nodes[c].visits
        + ISqrt((62500 * Log2Table[nodes[n].visits]) \div nodes[c].visits)

\* the loop of Node::getBestChild from child i on
RECURSIVE BestChildFrom(_, _, _, _, _)
BestChildFrom(nodes, n, i, bestChild, max_score) ==
    IF i > Len(nodes[n].children) THEN bestChild
    ELSE LET c == nodes[n].children[i]
         IN  IF nodes[c].visits = 0 THEN c
             ELSE IF nodes[n].visits >= 1 /\ Ucb(nodes, n, c) > max_score
             THEN BestChildFrom(nodes, n, i + 1, c, Ucb(nodes, n, c))
             ELSE BestChildFrom(nodes, n, i + 1, bestChild, max_score)

\* a getBestChild that returns the last child whatever the visits
getBestChild_LastChild(nodes, n) ==
    IF nodes[n].children = <<>> THEN nullptr
    ELSE nodes[n].children[Len(nodes[n].children)]

getBestChild(nodes, n) == BestChildFrom(nodes, n, 1, nullptr, 0 - 100000)

\* children that keep the side of their parent
ChildWho_Same(nd) == nd.who

\* the side given to the children Node::expand creates
ChildWho(nd) == 3 - nd.who

BestChildOf(st) == getBestChild(st.nodes, st.node)

\* Node::expand (class Node): [nodes, expanded]
expandNode(nodes, n, state) ==
    IF nodes[n].visits = 0 \/ nodes[n].is_leaf
    THEN [nodes |-> nodes, expanded |-> FALSE]
    ELSE IF nodes[n].is_expanded
    THEN [nodes |-> nodes, expanded |-> TRUE]
    ELSE LET points == get_legal_pts(state, state.who_take_turns)
         IN  IF points = <<>>
             THEN [nodes |-> [nodes EXCEPT ![n].is_leaf = TRUE],
                   expanded |-> FALSE]
             ELSE [nodes |->
                     [nodes EXCEPT ![n].children =
                                       NewIds(Len(nodes) + 1, Len(points)),
                                   ![n].is_expanded = TRUE]
                     \o [k \in 1 .. Len(points) |->
                           TreeNode(n, ChildWho(nodes[n]), points[k])],
                   expanded |-> TRUE]

\* "Node* root = new Node(3u - who, board::point(-1, -1));"
PlayerStart(position, side, engine) ==
    [nodes |-> << TreeNode(nullptr, 3 - side, NoPoint) >>, node |-> nullptr,
     board |-> position, cbw |-> 0, cpos |-> NullPos, rave |-> NoRave,
     winner |-> 0, rng |-> engine, ok |-> TRUE, plies |-> 0]

\* the descent of a build that compiles assert() out (NDEBUG): the node
\* moves on and the board is left alone
BestChildAndPlace_AssertCompiledOut(st) ==
    LET c == BestChildOf(st)
    IN  IF c = nullptr THEN [st EXCEPT !.ok = FALSE]
        ELSE [st EXCEPT !.node = c, !.plies = @ + 1]

\* "node = node->getBestChild(); assert(state.place(node->pos) == legal);"
\* a null best child or an illegal placement ends the program (ok = FALSE)
BestChildAndPlace(st) ==
    LET c == BestChildOf(st)
    IN  IF c = nullptr THEN [st EXCEPT !.ok = FALSE]
        ELSE [st EXCEPT !.node = c,
                        !.board = place(@, @.who_take_turns, st.nodes[c].pos),
                        !.ok = IsLegal(st.board.stone, st.board.who_take_turns,
                                       st.nodes[c].pos),
                        !.plies = @ + 1]

\* Node::traverse
RECURSIVE traverse(_)
traverse(st) ==
    IF st.ok /\ Len(st.nodes[st.node].children) > 0
    THEN traverse(BestChildAndPlace(st))
    ELSE st

\* Node::treePolicy, called on the root with a copy of the position
treePolicy(st, state) ==
    LET cur == traverse([st EXCEPT !.node = root, !.board = state,
                                   !.plies = 0])
        e == expandNode(cur.nodes, cur.node, cur.board)
    IN  IF ~cur.ok THEN cur
        ELSE IF e.expanded
        THEN BestChildAndPlace([cur EXCEPT !.nodes = e.nodes])
        ELSE [cur EXCEPT !.nodes = e.nodes]

\* the loop of Node::defaultPolicy on its own copy of the board, count
\* moves already applied: [winner, rng, after, count]
RECURSIVE Rollout(_, _, _, _)
Rollout(after, cur_who, rng, count) ==
    LET legal == LegalSet(after.stone, after.who_take_turns)
    IN  IF legal = {}
        THEN [winner |-> 3 - cur_who, rng |-> rng, after |-> after,
              count |-> count]
        ELSE Rollout(place(after, after.who_take_turns,
                           random_move_from_board(legal, rng)),
                     3 - cur_who, NextRng(rng), count + 1)

\* Node::defaultPolicy of the node reached
defaultPolicy(st) ==
    LET r == Rollout(st.board, 3 - st.nodes[st.node].who, st.rng, st.plies)
    IN  [st EXCEPT !.winner = r.winner, !.rng = r.rng, !.plies = r.count]

\* Node::backPropagate
RECURSIVE backPropagate(_)
backPropagate(st) ==
    IF st.node # nullptr
    THEN LET nd == st.nodes[st.node]
         IN  backPropagate(
                 [st EXCEPT !.nodes[st.node].visits = @ + 1,
                            !.nodes[st.node].wins =
                                @ + (IF st.winner = nd.who THEN 1 ELSE 0),
                            !.node = nd.parent])
    ELSE st

\* a loop that runs one iteration too many
LoopGuard_OffByOne(i, T) == i <= T

\* "i < T" of the loop of player::mcts_action
LoopGuard(i, T) == i < T

\* a break test with the comparison of the clock turned round
TimeLimitReached_Inverted(i, T, elapsed, time_limit) ==
    5 * i > T /\ i % CheckPeriod = 0 /\ elapsed < time_limit

\* the break condition of the loop of player::mcts_action, at the end of
\* iteration i
TimeLimitReached(i, T, elapsed, time_limit) ==
    5 * i > T /\ i % CheckPeriod = 0 /\ elapsed > time_limit

\* a selection that lets a later child of equal visits replace the best one
RECURSIVE BestVisitsFrom_LastWins(_, _, _)
BestVisitsFrom_LastWins(nodes, k, best_child) ==
    IF k > Len(nodes[root].children) THEN best_child
    ELSE LET child == nodes[root].children[k]
         IN  BestVisitsFrom_LastWins(nodes, k + 1,
                 IF best_child = nullptr
                    \/ nodes[child].visits >= nodes[best_child].visits
                 THEN child ELSE best_child)

\* "get the best child" of player::mcts_action: nullptr without children
RECURSIVE BestVisitsFrom(_, _, _)
BestVisitsFrom(nodes, k, best_child) ==
    IF k > Len(nodes[root].children) THEN best_child
    ELSE LET child == nodes[root].children[k]
         IN  BestVisitsFrom(nodes, k + 1,
                 IF best_child = nullptr
                    \/ nodes[child].visits > nodes[best_child].visits
                 THEN child ELSE best_child)

\* the action player::mcts_action returns: the point played, or NoAction
PlayerBestMove(nodes) ==
    LET best_child == BestVisitsFrom(nodes, 1, nullptr)
    IN  IF best_child = nullptr THEN NoAction ELSE nodes[best_child].pos

(***************************************************************************)
(* When a search is due to stop: the iteration floor is passed and the     *)
(* elapsed time is over the budget (read at the end of an iteration).      *)
(***************************************************************************)
PlayerStopDue(i, T, elapsed, time_limit) == 5 * i > T /\ elapsed > time_limit

AgentStopDue(total_counts, elapsed) ==
    total_counts >= MinPlayouts /\ elapsed >= threshold_time

(***************************************************************************)
(* The positions a search is asked about: those a game reaches from the    *)
(* empty board by legal placements, black first, with the side to move.    *)
(***************************************************************************)
EmptyBoard == [stone |-> [p \in Points |-> empty], who_take_turns |-> black]

Successors(board) ==
    {place(board, board.who_take_turns, p) :
        p \in LegalSet(board.stone, board.who_take_turns)}

RECURSIVE ReachFrom(_, _)
ReachFrom(seen, frontier) ==
    IF frontier = {} THEN seen
    ELSE LET nxt == (UNION {Successors(x) : x \in frontier}) \ seen
         IN  ReachFrom(seen \cup nxt, nxt)

Positions == ReachFrom({EmptyBoard}, {EmptyBoard})

(***************************************************************************)
(* State.                                                                  *)
(***************************************************************************)
VARIABLES
    method,         \* "MCTSAgent" (MCTSAgent::take_action) or "mcts" (player)
    b,              \* the position given to the search (never changed)
    who,            \* the side to move, as a piece type (player::who)
    T,              \* player::T
    t_limit,        \* player::t_limit
    nodes,          \* the tree
    node,           \* the node pointer of the running iteration
    board,          \* the board copy of the running iteration
    cbw, cpos,      \* MCTSAgent::take_action: last side and point played
    rave,           \* MCTSAgent::take_action: the points played per side
    winner,         \* winner of the last playout
    rng,            \* state of the pseudo random generator
    i,              \* iterations completed (total_counts, i)
    start_time,     \* clock reading at the start of the search
    now,            \* the clock
    pc,             \* position in the search
    result,         \* the value returned
    seed,           \* the seed the generator was constructed with
    space,          \* player::space, the placements random_action tries
    playouts,       \* history: playouts run by this call
    plies,          \* history: moves applied to the board copies of the
                    \* running iteration
    overdue         \* history: iterations started although the floor was
                    \* passed and the time budget exceeded

vars == <<method, b, who, T, t_limit, nodes, node, board, cbw, cpos, rave,
          winner, rng, i, start_time, now, pc, result, seed, space, playouts,
          plies, overdue>>

inputs == <<method, b, who, T, t_limit, seed, space>>

\* the side to move as MCTSAgent's bw
bw == who - 1

\* locals whose generator is seeded again from the clock
Locals_ClockSeeded ==
    [nodes |-> nodes, node |-> node, board |-> board, cbw |-> cbw,
     cpos |-> cpos, rave |-> rave, winner |-> winner, rng |-> now % 64,
     ok |-> TRUE, plies |-> plies]

\* the locals of the running search
Locals ==
    [nodes |-> nodes, node |-> node, board |-> board, cbw |-> cbw,
     cpos |-> cpos, rave |-> rave, winner |-> winner, rng |-> rng, ok |-> TRUE,
     plies |-> plies]

Store(st) ==
    /\ nodes' = st.nodes
    /\ node' = st.node
    /\ board' = st.board
    /\ cbw' = st.cbw
    /\ cpos' = st.cpos
    /\ rave' = st.rave
    /\ winner' = st.winner
    /\ rng' = st.rng
    /\ plies' = st.plies

\* the ticks one iteration may take
Ticks == {1, MaxTick}
\* the iteration budgets T handed to player::mcts_action
Budgets == {0, 1, 2, MaxT}
TimeLimits == {1, MaxTimeLimit}

Init ==
    /\ method \in {"MCTSAgent", "mcts"}
    /\ b \in Positions
    /\ who = b.who_take_turns
    /\ T \in (IF method = "mcts" THEN Budgets ELSE {0})
    /\ t_limit \in (IF method = "mcts" THEN TimeLimits ELSE {0})
    /\ seed \in 0 .. MaxSeed
    /\ rng = seed
    /\ space = <<>>
    /\ playouts = 0
    /\ plies = 0
    /\ overdue = 0
    /\ nodes = <<>>
    /\ node = nullptr
    /\ board = b
    /\ cbw = 0
    /\ cpos = NullPos
    /\ rave = NoRave
    /\ winner = 0
    /\ i = 0
    /\ start_time = 0
    /\ now = 0
    /\ pc = IF method = "mcts" THEN "mcts_action" ELSE "take_action"
    /\ result = NoAction

(***************************************************************************)
(* MCTSAgent::take_action.                                                 *)
(***************************************************************************)
\* entry: no legal move returns 81; else the locals and the root are set up
AgentTakeAction ==
    /\ pc = "take_action"
    /\ IF NoLegalMoveAtRoot(b, bw)
       THEN /\ result' = NullPos
            /\ pc' = "done"
            /\ UNCHANGED <<nodes, cbw, cpos, start_time>>
       ELSE /\ cbw' = AgentStart(b, bw, rng).cbw
            /\ cpos' = AgentStart(b, bw, rng).cpos
            /\ start_time' = now
            /\ nodes' = AgentStart(b, bw, rng).nodes
            /\ pc' = "selection"
            /\ UNCHANGED result
    /\ UNCHANGED <<inputs, plies, node, board, rave, winner, rng, i, now, playouts,
                   overdue>>

AgentSelectionStep ==
    /\ pc = "selection"
    /\ Store(AgentSelection(AgentIterationStart(Locals, b)))
    /\ pc' = "expansion"
    /\ UNCHANGED <<inputs, i, start_time, now, result, playouts, overdue>>

AgentExpansionStep ==
    /\ pc = "expansion"
    /\ Store(AgentExpansion(Locals))
    /\ pc' = "simulation"
    /\ UNCHANGED <<inputs, i, start_time, now, result, playouts, overdue>>

AgentSimulationStep ==
    /\ pc = "simulation"
    /\ Store(AgentSimulation(Locals))
    /\ playouts' = playouts + 1
    /\ pc' = "backpropagation"
    /\ UNCHANGED <<inputs, i, start_time, now, result, overdue>>

AgentBackpropagationStep ==
    /\ pc = "backpropagation"
    /\ Store(AgentBackpropagation(Locals))
    /\ pc' = "loop_test"
    /\ UNCHANGED <<inputs, i, start_time, now, result, playouts, overdue>>

\* "while (++total_counts < 50000 || now() - start_time < threshold_time)":
\* the iteration has taken dt ticks of the clock
AgentLoopTest ==
    /\ pc = "loop_test"
    /\ \E dt \in Ticks :
         /\ now' = now + dt
         /\ i' = i + 1
         /\ pc' = IF AgentContinue(i + 1, now + dt - start_time)
                  THEN "selection" ELSE "best_move"
         /\ overdue' = IF /\ AgentContinue(i + 1, now + dt - start_time)
                          /\ AgentStopDue(i + 1, now + dt - start_time)
                       THEN overdue + 1 ELSE overdue
    /\ UNCHANGED <<inputs, plies, nodes, node, board, cbw, cpos, rave, winner, rng,
                   start_time, result, playouts>>

AgentReturn ==
    /\ pc = "best_move"
    /\ result' \in AgentBestMoves(nodes)
    /\ pc' = "done"
    /\ UNCHANGED <<inputs, plies, nodes, node, board, cbw, cpos, rave, winner, rng, i,
                   start_time, now, playouts, overdue>>

(***************************************************************************)
(* player::mcts_action.                                                    *)
(***************************************************************************)
\* the root of the tree and the loop header for i = 0
MctsAction ==
    /\ pc = "mcts_action"
    /\ start_time' = now
    /\ nodes' = PlayerStart(b, who, rng).nodes
    /\ pc' = IF LoopGuard(0, T) THEN "treePolicy" ELSE "best_child"
    /\ UNCHANGED <<inputs, plies, node, board, cbw, cpos, rave, winner, rng, i, now,
                   result, playouts, overdue>>

PlayerTreePolicy ==
    /\ pc = "treePolicy"
    /\ LET st == treePolicy(Locals, b)
       IN  /\ Store(st)
           /\ pc' = IF st.ok THEN "defaultPolicy" ELSE "abort"
    /\ UNCHANGED <<inputs, i, start_time, now, result, playouts, overdue>>

PlayerDefaultPolicy ==
    /\ pc = "defaultPolicy"
    /\ Store(defaultPolicy(Locals))
    /\ playouts' = playouts + 1
    /\ pc' = "backPropagate"
    /\ UNCHANGED <<inputs, i, start_time, now, result, overdue>>

PlayerBackPropagate ==
    /\ pc = "backPropagate"
    /\ Store(backPropagate(Locals))
    /\ pc' = "time_check"
    /\ UNCHANGED <<inputs, i, start_time, now, result, playouts, overdue>>

\* the break test at the end of iteration i, then "i++" and "i < T"
PlayerTimeCheck ==
    /\ pc = "time_check"
    /\ \E dt \in Ticks :
         /\ now' = now + dt
         /\ IF TimeLimitReached(i, T, now + dt - start_time, t_limit)
            THEN /\ pc' = "best_child"
                 /\ i' = i
                 /\ overdue' = overdue
            ELSE /\ i' = i + 1
                 /\ pc' = IF LoopGuard(i + 1, T) THEN "treePolicy"
                          ELSE "best_child"
                 /\ overdue' = IF /\ LoopGuard(i + 1, T)
                                  /\ PlayerStopDue(i, T, now + dt - start_time,
                                                   t_limit)
                               THEN overdue + 1 ELSE overdue
    /\ UNCHANGED <<inputs, plies, nodes, node, board, cbw, cpos, rave, winner, rng,
                   start_time, result, playouts>>

PlayerReturn ==
    /\ pc = "best_child"
    /\ result' = PlayerBestMove(nodes)
    /\ pc' = "done"
    /\ UNCHANGED <<inputs, plies, nodes, node, board, cbw, cpos, rave, winner, rng, i,
                   start_time, now, playouts, overdue>>

Next ==
    \/ AgentTakeAction
    \/ AgentSelectionStep
    \/ AgentExpansionStep
    \/ AgentSimulationStep
    \/ AgentBackpropagationStep
    \/ AgentLoopTest
    \/ AgentReturn
    \/ MctsAction
    \/ PlayerTreePolicy
    \/ PlayerDefaultPolicy
    \/ PlayerBackPropagate
    \/ PlayerTimeCheck
    \/ PlayerReturn

Spec == Init /\ [][Next]_vars

(***************************************************************************)
(* MCTSAgent::take_action alone; the loop runs on without waiting, which   *)
(* weak fairness of its steps states.                                      *)
(***************************************************************************)
AgentInit == Init /\ method = "MCTSAgent"

AgentNext ==
    \/ AgentTakeAction
    \/ AgentSelectionStep
    \/ AgentExpansionStep
    \/ AgentSimulationStep
    \/ AgentBackpropagationStep
    \/ AgentLoopTest
    \/ AgentReturn

\* the points of take_action between its statements
AgentPoints ==
    {"take_action", "selection", "expansion", "simulation", "backpropagation",
     "loop_test", "best_move", "done"}

\* the thread that runs take_action goes on to the next point of the method:
\* every step of AgentNext moves pc, and one is possible at every point but
\* "done"
AgentRuns ==
    /\ pc # "done"
    /\ \E p \in AgentPoints \ {pc} : pc' = p

\* the thread is scheduled until the method returns
AgentSpec == AgentInit /\ [][AgentNext]_vars /\ WF_pc(AgentRuns)

(***************************************************************************)
(* Views of the tree shared by the properties.                             *)
(***************************************************************************)
IsAgent == method = "MCTSAgent"
IsPlayer == method = "mcts"

\* the legal points of the side to move in the position given
RootLegal == LegalSet(b.stone, who)

\* the value that stands for "no move" in the result of the method
NullResult == IF IsAgent THEN NullPos ELSE NoAction

KidsOf(n) ==
    IF IsAgent THEN nodes[n].children_ ELSE nodes[n].children

VisitsOf(n) == IF IsAgent THEN nodes[n].visits_ ELSE nodes[n].visits
PosOf(n) == IF IsAgent THEN nodes[n].pos_ ELSE nodes[n].pos
ParentOf(n) == IF IsAgent THEN nodes[n].parent_ ELSE nodes[n].parent
\* the side of a node as a piece type
SideOf(n) == IF IsAgent THEN Piece(nodes[n].bw_) ELSE nodes[n].who

RootKids == IF nodes = <<>> THEN {} ELSE {KidsOf(root)[k] : k \in 1 .. Len(KidsOf(root))}

\* the root children of maximal visits
MostVisited == {c \in RootKids : \A d \in RootKids : VisitsOf(d) <= VisitsOf(c)}

(***************************************************************************)
(* C1: when the side to move has no legal point in the root position, the  *)
(* search returns the null action (81 from MCTSAgent::take_action,         *)
(* action() from player::mcts_action), whatever T and the time budget.     *)
(***************************************************************************)
C1_NoLegalMoveReturnsNull ==
    (pc = "done" /\ RootLegal = {}) => result = NullResult

\* a player search that ran playouts on a position without a legal move
C1_Witness ==
    /\ pc = "done" /\ RootLegal = {} /\ IsPlayer
    /\ playouts >= 2 /\ nodes[root].is_leaf /\ result = NoAction

(***************************************************************************)
(* C2: when the side to move has exactly one legal point p, the search     *)
(* returns p for every budget of at least one playout (T >= 1).            *)
(***************************************************************************)
C2_SingleLegalMoveReturned ==
    (/\ pc = "done"
     /\ Cardinality(RootLegal) = 1
     /\ (IsPlayer => T >= 1))
    => result \in RootLegal

(***************************************************************************)
(* C3: the move returned is the pos of a root child of maximal visits, and *)
(* among the root children of maximal visits the one of lowest pos.        *)
(***************************************************************************)
C3_MostVisitedLowestPos ==
    (pc = "done" /\ result # NullResult)
    => \E c \in MostVisited :
          /\ PosOf(c) = result
          /\ \A d \in MostVisited : PosOf(c) <= PosOf(d)

(***************************************************************************)
(* C3 as amended: the move returned is the pos of a root child of maximal  *)
(* visits; among several of them player::mcts_action returns the first in  *)
(* child order, MCTSAgent::take_action any one (the order of its unordered *)
(* map decides).                                                           *)
(***************************************************************************)
C3_MostVisited ==
    (pc = "done" /\ result # NullResult)
    => \E k \in 1 .. Len(KidsOf(root)) :
          /\ KidsOf(root)[k] \in MostVisited
          /\ PosOf(KidsOf(root)[k]) = result
          /\ IsPlayer => \A j \in 1 .. (k - 1) : KidsOf(root)[j] \notin MostVisited

\* the agent returns a most visited move that is not the lowest of them
C3_Witness ==
    /\ pc = "done" /\ IsAgent /\ result # NullResult
    /\ \E c, d \in MostVisited : PosOf(c) = result /\ PosOf(d) < PosOf(c)

(***************************************************************************)
(* C4: with an iteration budget T (50 000 for MCTSAgent), one search call  *)
(* performs at most T playouts, whatever the clock does.                   *)
(***************************************************************************)
C4_PlayoutsAtMostBudget ==
    playouts <= (IF IsPlayer THEN T ELSE MinPlayouts)

(***************************************************************************)
(* C4 as amended: player::mcts_action performs at most T playouts whatever *)
(* the clock does; MCTSAgent::take_action has no such cap: on a position   *)
(* with a legal move it returns after at least 50 000 playouts.            *)
(***************************************************************************)
C4_PlayerAtMostT_AgentAtLeastFloor ==
    /\ IsPlayer => playouts <= T
    /\ (IsAgent /\ pc = "done" /\ RootLegal # {}) => playouts >= MinPlayouts

\* a player search that used its whole budget
C4_Witness ==
    pc = "done" /\ IsPlayer /\ T = MaxT /\ playouts = T

(***************************************************************************)
(* C5: with a time budget, the loop exits no later than one iteration      *)
(* after the elapsed time first exceeds the budget with the iteration      *)
(* count past the safety floor: at most one iteration is started while the *)
(* stop is due.                                                            *)
(***************************************************************************)
C5_ExitWithinOneIteration == overdue <= 1

(***************************************************************************)
(* C5 as amended: player::mcts_action reads the clock only at iterations   *)
(* that are multiples of the check period (100), so it starts at most      *)
(* period - 1 iterations while the stop is due; MCTSAgent::take_action     *)
(* starts none once 50 000 playouts are done and a second has elapsed.     *)
(***************************************************************************)
C5_ExitWithinCheckPeriod ==
    /\ IsPlayer => overdue <= CheckPeriod - 1
    /\ IsAgent => overdue = 0

\* a player search that left by the break after period - 1 overdue iterations
C5_Witness ==
    IsPlayer /\ pc = "done" /\ i < T /\ overdue = CheckPeriod - 1

(***************************************************************************)
(* C6: the loop of MCTSAgent::take_action starts another iteration exactly *)
(* while total playouts < 50 000 or elapsed < 1 second; it returns only    *)
(* after at least 50 000 playouts and at least 1 second, and it            *)
(* terminates (the clock advances with every iteration).                   *)
(***************************************************************************)
C6_AgentLoop ==
    /\ [][pc = "loop_test" =>
            (pc' = "selection" <=>
                (i' < MinPlayouts \/ now' - start_time' < threshold_time))]_vars
    /\ [](pc = "best_move" =>
            (i >= MinPlayouts /\ now - start_time >= threshold_time))
    /\ <>(pc = "done")

\* a search that went on beyond the floor of playouts until the time was up
C6_Witness ==
    /\ IsAgent /\ pc = "done" /\ RootLegal # {}
    /\ i > MinPlayouts /\ now - start_time >= threshold_time

(***************************************************************************)
(* Runs of whole iterations, for the comparison of two runs.               *)
(***************************************************************************)
AgentIteration(st, position) ==
    AgentBackpropagation(AgentSimulation(AgentExpansion(
        AgentSelection(AgentIterationStart(st, position)))))

PlayerIteration(st, position) ==
    backPropagate(defaultPolicy(treePolicy(st, position)))

RECURSIVE RunIterations(_, _)
RunIterations(st, n) ==
    IF n = 0 THEN st
    ELSE RunIterations(IF IsAgent THEN AgentIteration(st, b)
                       ELSE PlayerIteration(st, b), n - 1)

\* the tree after n iterations of a search started with the same inputs and
\* the same seed
TreeAfter(n) ==
    RunIterations(IF IsAgent THEN AgentStart(b, bw, seed)
                  ELSE PlayerStart(b, who, seed), n).nodes

\* the moves a search may return from a tree
MovesOf(tree) ==
    IF IsAgent THEN AgentBestMoves(tree) ELSE {PlayerBestMove(tree)}

\* the moves a search may return after n iterations
MovesAfter(n) == MovesOf(TreeAfter(n))

\* the number of playouts of the run in which every iteration takes one tick
RECURSIVE PlayerSteadyLength(_)
PlayerSteadyLength(k) ==
    IF ~LoopGuard(k, T) THEN k
    ELSE IF TimeLimitReached(k, T, k + 1, t_limit) THEN k + 1
    ELSE PlayerSteadyLength(k + 1)

RECURSIVE AgentSteadyLength(_)
AgentSteadyLength(n) ==
    IF AgentContinue(n, n) THEN AgentSteadyLength(n + 1) ELSE n

SteadyLength == IF IsAgent THEN AgentSteadyLength(1) ELSE PlayerSteadyLength(0)

RECURSIVE StonesAt(_)
StonesAt(n) ==
    IF ParentOf(n) = nullptr THEN b.stone
    ELSE [StonesAt(ParentOf(n)) EXCEPT ![PosOf(n)] = SideOf(n)]

NodeIds == 1 .. Len(nodes)

HasGrandchild ==
    \E n \in NodeIds : ParentOf(n) # nullptr /\ ParentOf(ParentOf(n)) # nullptr

(***************************************************************************)
(* C8: every move applied to the board copy during the descent is legal    *)
(* for the child's side where it is applied, and the board on which a node *)
(* is reached is the position of its path, on every visit.                 *)
(***************************************************************************)
C8_DescentLegal ==
    /\ pc # "abort"
    /\ \A n \in NodeIds :
          ParentOf(n) # nullptr =>
              IsLegal(StonesAt(ParentOf(n)), SideOf(n), PosOf(n))
    /\ pc \in {"expansion", "simulation", "defaultPolicy"} =>
          /\ board.stone = StonesAt(node)
          /\ IsPlayer => board.who_take_turns = Other(SideOf(node))

\* a descent of two moves has reached a grandchild of the root
C8_Witness ==
    /\ pc \in {"expansion", "simulation", "defaultPolicy"}
    /\ ParentOf(node) # nullptr /\ ParentOf(ParentOf(node)) # nullptr
    /\ board.stone = StonesAt(node) /\ board.stone # b.stone

(***************************************************************************)
(* C9: an expanded node has exactly one child per legal move of            *)
(* other(node.side) in the position reached at the node, and no other.     *)
(***************************************************************************)
C9_ChildrenAreLegalMoves ==
    \A n \in NodeIds :
        Len(KidsOf(n)) > 0 =>
            LET legal == LegalSet(StonesAt(n), Other(SideOf(n)))
            IN  /\ Len(KidsOf(n)) = Cardinality(legal)
                /\ {PosOf(KidsOf(n)[k]) : k \in 1 .. Len(KidsOf(n))} = legal
                /\ \A k \in 1 .. Len(KidsOf(n)) : ParentOf(KidsOf(n)[k]) = n

\* a child of the root has been expanded, with fewer children than the root
C9_Witness ==
    \E n \in NodeIds :
        /\ ParentOf(n) = root
        /\ Len(KidsOf(n)) > 0
        /\ Len(KidsOf(n)) < Len(KidsOf(root))

(***************************************************************************)
(* C10: the side of a node other than the root is the other side of its    *)
(* parent, and the side of the root is the other side of the side to move. *)
(***************************************************************************)
C10_SidesAlternate ==
    /\ nodes # <<>> => SideOf(root) = Other(who)
    /\ \A n \in NodeIds :
          ParentOf(n) # nullptr => SideOf(n) = Other(SideOf(ParentOf(n)))

\* a tree with a grandchild of the root
C10_Witness == pc = "done" /\ HasGrandchild

WinsOf(n) == IF IsAgent THEN nodes[n].wins_ ELSE nodes[n].wins

\* the statistics of node n in the tree given are at least those of the
\* tree of this state
NotDecreased(tree, n) ==
    IF IsAgent
    THEN /\ tree[n].visits_ >= nodes[n].visits_
         /\ tree[n].wins_ >= nodes[n].wins_
         /\ tree[n].rave_visits_ >= nodes[n].rave_visits_
         /\ tree[n].rave_wins_ >= nodes[n].rave_wins_
    ELSE /\ tree[n].visits >= nodes[n].visits
         /\ tree[n].wins >= nodes[n].wins

(***************************************************************************)
(* C11: every node has wins <= visits, and every node of MCTSAgent has     *)
(* rave_wins <= rave_visits, rave_visits >= 20 and rave_wins >= 10; no     *)
(* step removes a node or decreases visits, wins, rave_visits or rave_wins *)
(* of a node.                                                              *)
(***************************************************************************)
C11_StatisticsBounded ==
    /\ [](\A n \in NodeIds :
            /\ 0 <= WinsOf(n) /\ WinsOf(n) <= VisitsOf(n)
            /\ IsAgent => /\ nodes[n].rave_wins_ <= nodes[n].rave_visits_
                          /\ nodes[n].rave_visits_ >= 20
                          /\ nodes[n].rave_wins_ >= 10)
    /\ [][/\ Len(nodes') >= Len(nodes)
           /\ \A n \in NodeIds : NotDecreased(nodes', n)]_vars

\* a node of MCTSAgent whose four statistics have all grown, and one whose
\* rave_visits has grown without a rave win
C11_Witness ==
    /\ IsAgent
    /\ \E n \in NodeIds :
          /\ nodes[n].wins_ >= 1 /\ nodes[n].visits_ >= nodes[n].wins_
          /\ nodes[n].rave_wins_ > 10 /\ nodes[n].rave_visits_ > 20
    /\ \E n \in NodeIds :
          nodes[n].rave_visits_ - 20 > nodes[n].rave_wins_ - 10

(***************************************************************************)
(* The life of a node: Fresh (never visited), Visited (visited, neither    *)
(* expanded nor found terminal), Expanded (has children), Terminal         *)
(* (is_leaf: no legal reply).                                              *)
(***************************************************************************)
KidsIn(tree, n) == IF IsAgent THEN tree[n].children_ ELSE tree[n].children
LeafIn(tree, n) == IF IsAgent THEN tree[n].is_leaf_ ELSE tree[n].is_leaf
VisitsIn(tree, n) == IF IsAgent THEN tree[n].visits_ ELSE tree[n].visits

NodeState(tree, n) ==
    IF Len(KidsIn(tree, n)) > 0 THEN "Expanded"
    ELSE IF LeafIn(tree, n) THEN "Terminal"
    ELSE IF VisitsIn(tree, n) = 0 THEN "Fresh"
    ELSE "Visited"

NodeStateMoves ==
    {<<"Fresh", "Visited">>, <<"Visited", "Expanded">>, <<"Visited", "Terminal">>}

(***************************************************************************)
(* C12: a node with visits = 0 has no children and is not marked is_leaf,  *)
(* a node marked is_leaf has no children; children once created are never  *)
(* replaced, and the state of a node only moves Fresh -> Visited ->        *)
(* Expanded or Fresh -> Visited -> Terminal.                               *)
(***************************************************************************)
C12_NodeLifeCycle ==
    /\ [](\A n \in NodeIds :
            /\ VisitsOf(n) = 0 => (Len(KidsOf(n)) = 0 /\ ~LeafIn(nodes, n))
            /\ LeafIn(nodes, n) => Len(KidsOf(n)) = 0)
    /\ [][\A n \in NodeIds :
            /\ n \in 1 .. Len(nodes')
            /\ Len(KidsOf(n)) > 0 => KidsIn(nodes', n) = KidsOf(n)
            /\ \/ NodeState(nodes', n) = NodeState(nodes, n)
               \/ <<NodeState(nodes, n), NodeState(nodes', n)>> \in NodeStateMoves]_vars

\* a tree of MCTSAgent whose root was expanded on its second visit and one
\* of whose nodes was found terminal on its second visit
C12_Witness ==
    /\ IsAgent /\ nodes # <<>>
    /\ NodeState(nodes, root) = "Expanded" /\ VisitsOf(root) >= 3
    /\ \E n \in NodeIds : NodeState(nodes, n) = "Terminal" /\ VisitsOf(n) >= 2

\* the playout Node::defaultPolicy runs from the node reached
PlayerRollout == Rollout(board, 3 - nodes[node].who, rng, plies)

(***************************************************************************)
(* C13: the winner handed to backpropagation is the side that made the     *)
(* last move on the board of the iteration, and on the final board the     *)
(* other side has no legal move; a playout of zero moves (the node         *)
(* reached is terminal) makes the side of that node the winner.            *)
(***************************************************************************)
C13_WinnerMadeLastMove ==
    /\ []((IsAgent /\ pc = "backpropagation") =>
            /\ winner = cbw
            /\ LegalSet(board.stone, Piece(1 - winner)) = {}
            /\ cpos \in Points /\ board.stone[cpos] = Piece(winner))
    /\ [][(IsAgent /\ pc = "simulation"
             /\ LegalSet(board.stone, Piece(1 - cbw)) = {}) =>
            (winner' = nodes[node].bw_ /\ board' = board)]_vars
    /\ [][(IsPlayer /\ pc = "defaultPolicy") =>
            /\ winner' = PlayerRollout.winner
            /\ PlayerRollout.after.who_take_turns = Other(winner')
            /\ LegalSet(PlayerRollout.after.stone, Other(winner')) = {}
            /\ (LegalSet(board.stone, Other(nodes[node].who)) = {}) =>
                   (winner' = nodes[node].who /\ PlayerRollout.after = board)]_vars

\* backpropagation from a terminal node of MCTSAgent: the playout made no
\* move and the side of the node has won
C13_Witness ==
    /\ IsAgent /\ pc = "backpropagation"
    /\ nodes[node].is_leaf_ /\ winner = nodes[node].bw_
    /\ board.stone = StonesAt(node)

-----------------------------------------------------------------------------
\* Moves applied in one iteration

EmptyCount(stone) == Cardinality({p \in Points : stone[p] = empty})

\* the board "base" with "count" more stones and none of its stones changed
Filled(base, stone, count) ==
    /\ \A p \in Points : base[p] # empty => stone[p] = base[p]
    /\ EmptyCount(stone) = EmptyCount(base) - count

\* C14: every playout terminates: each move of an iteration (descent plus
\* playout) fills a point that was empty, so the final board of the iteration
\* is the root position with one more stone per move applied, and the number
\* of moves of one iteration is at most the number of empty points of the
\* root position, hence at most the number of points of the board
C14_MovesBoundedByEmptyPoints ==
    /\ [](/\ plies <= EmptyCount(b.stone)
          /\ EmptyCount(b.stone) <= NumPoints
          /\ pc \in {"expansion", "simulation", "backpropagation",
                     "defaultPolicy"}
                => Filled(b.stone, board.stone, plies))
    /\ [][pc = "defaultPolicy"
            => /\ plies' = PlayerRollout.count
               /\ Filled(b.stone, PlayerRollout.after.stone, plies')
               /\ Filled(board.stone, PlayerRollout.after.stone,
                         plies' - plies)]_vars

\* an iteration whose descent and whose playout both applied moves
C14_Witness ==
    /\ IsAgent /\ pc = "backpropagation"
    /\ node # root /\ board.stone # StonesAt(node)
    /\ plies >= 2 /\ plies = EmptyCount(b.stone) - EmptyCount(board.stone)

-----------------------------------------------------------------------------
\* The effect of one backpropagation

\* the nodes from n up to the root
RECURSIVE PathToRoot(_)
PathToRoot(n) ==
    IF n = nullptr THEN {} ELSE {n} \cup PathToRoot(nodes[n].parent_)

\* node n is a child of a node of the path and its point is set in the
\* rave mask of its own side
RaveHit(n) ==
    LET p == nodes[n].parent_
    IN  /\ p # nullptr /\ p \in PathToRoot(node)
        /\ nodes[n].pos_ \in rave[1 - nodes[p].bw_]

\* node n as one backpropagation from the selected node leaves it
Backpropagated(n) ==
    LET on == n \in PathToRoot(node)
        hit == RaveHit(n)
    IN  [nodes[n] EXCEPT
            !.visits_ = @ + (IF on THEN 1 ELSE 0),
            !.wins_ = @ + (IF on /\ winner = nodes[n].bw_ THEN 1 ELSE 0),
            !.rave_visits_ = @ + (IF hit THEN 1 ELSE 0),
            !.rave_wins_ =
                @ + (IF hit /\ winner = 1 - nodes[nodes[n].parent_].bw_
                     THEN 1 ELSE 0)]

BackpropagationEffect ==
    /\ node' = nullptr
    /\ Len(nodes') = Len(nodes)
    /\ \A n \in NodeIds : nodes'[n] = Backpropagated(n)

\* C15: backpropagation visits exactly the nodes on the path from the
\* selected node to the root; at each of them visits += 1, wins += 1 iff
\* winner == node.side, and each child whose point is set in
\* rave[other(node.side)] gets rave_visits += 1 and rave_wins += 1 iff
\* winner == other(node.side); children whose point is not in that mask keep
\* their rave statistics, and a node off the path changes in nothing but
\* the rave statistics it gets as such a child
C15_BackpropagationEffect ==
    [][IsAgent /\ pc = "backpropagation" => BackpropagationEffect]_vars

\* C15 as stated: moreover all nodes off the path are unchanged
C15_OffPathUnchanged ==
    [][IsAgent /\ pc = "backpropagation"
         => /\ BackpropagationEffect
            /\ \A n \in NodeIds \ PathToRoot(node) : nodes'[n] = nodes[n]]_vars

\* after a backpropagation: a child never visited, so never on a path, whose
\* rave statistics have grown, next to one that has kept them
C15_Witness ==
    /\ IsAgent /\ pc = "loop_test"
    /\ \E c, d \in NodeIds :
         /\ nodes[c].parent_ = nodes[d].parent_
         /\ nodes[c].visits_ = 0 /\ nodes[c].rave_visits_ > 20
         /\ nodes[d].rave_visits_ = 20

-----------------------------------------------------------------------------
(***************************************************************************)
(* Node::select_child on its own: a node with three children whose         *)
(* statistics are drawn from small sets.  The subtrees below the children  *)
(* are left out, select_child reads the node and its children only.        *)
(***************************************************************************)
KidVisits == {0, 6, 7}
KidWins == {0, 2}
\* the updates of the parent that found the point of a child in the rave
\* mask, and those of them won by the side of the child
KidRaveHits == {6, 10, 13}
KidRaveWins == {2, 4, 5}

\* what Node::update keeps true of a child: every visit of the child is a
\* rave hit, every win of the child a rave win
KidStats ==
    {s \in [visits_ : KidVisits, wins_ : KidWins,
            hits : KidRaveHits, hit_wins : KidRaveWins] :
        /\ s.wins_ <= s.visits_ /\ s.visits_ <= s.hits
        /\ s.wins_ <= s.hit_wins
        /\ s.hit_wins - s.wins_ <= s.hits - s.visits_}

Kid(s, pos) ==
    [AgentNode(0, pos, root) EXCEPT !.visits_ = s.visits_, !.wins_ = s.wins_,
                                    !.rave_visits_ = 20 + s.hits,
                                    !.rave_wins_ = 10 + s.hit_wins]

\* the node of the three children: one visit before its expansion, then
\* one per visit of a child
KidsParent(s1, s2, s3) ==
    [AgentNode(1, NullPos, nullptr) EXCEPT
        !.children_ = <<2, 3, 4>>,
        !.visits_ = 1 + s1.visits_ + s2.visits_ + s3.visits_,
        !.wins_ = (s1.visits_ - s1.wins_) + (s2.visits_ - s2.wins_)
                      + (s3.visits_ - s3.wins_)]

SelectChildInit ==
    /\ method = "select_child"
    /\ b = EmptyBoard
    /\ who = b.who_take_turns
    /\ T = 0
    /\ t_limit = 0
    /\ seed \in {0, 8}
    /\ rng = seed
    /\ space = <<>>
    /\ playouts = 0
    /\ plies = 0
    /\ overdue = 0
    /\ \E s1, s2, s3 \in KidStats :
         /\ 1 + s1.visits_ + s2.visits_ + s3.visits_ <= Len(LnTable)
         /\ \A s \in {s1, s2, s3} :
                s.hits <= s1.visits_ + s2.visits_ + s3.visits_
         /\ nodes = << KidsParent(s1, s2, s3),
                       Kid(s1, 0), Kid(s2, 1), Kid(s3, 2) >>
    /\ node = root
    /\ board = b
    /\ cbw = 1
    /\ cpos = NullPos
    /\ rave = NoRave
    /\ winner = 0
    /\ i = 0
    /\ start_time = 0
    /\ now = 0
    /\ pc = "select_child"
    /\ result = NoAction

\* "node = node->select_child(engine_, cbw, cpos);"
SelectChildCall ==
    /\ pc = "select_child"
    /\ LET s == select_child(nodes, node, rng)
       IN  /\ node' = s.child
           /\ cbw' = s.bw
           /\ cpos' = s.pos
           /\ rng' = s.rng
    /\ pc' = "selected"
    /\ UNCHANGED <<inputs, plies, nodes, board, rave, winner, i, start_time,
                   now, result, playouts, overdue>>

SelectChildSpec == SelectChildInit /\ [][SelectChildCall]_vars

\* the maximum score over all children of node n
TrueMaxScore(tree, n) ==
    LET scores == {Score(tree, n, tree[n].children_[k]) :
                      k \in 1 .. Len(tree[n].children_)}
    IN  CHOOSE m \in scores : \A x \in scores : x <= m

-----------------------------------------------------------------------------
(***************************************************************************)
(* player::random_action, the player built without "mcts".                 *)
(***************************************************************************)
\* "space[i] = action::place(i, who)": the points in index order
InitialSpace == [k \in 1 .. NumPoints |-> k - 1]

Swap(seq, x, y) == [seq EXCEPT ![x] = seq[y], ![y] = seq[x]]

\* std::shuffle from element k on: element k changes places with one of
\* the elements 1 .. k drawn from the engine: [space, rng]
RECURSIVE shuffle(_, _, _)
shuffle(seq, k, engine) ==
    IF k > Len(seq) THEN [space |-> seq, rng |-> engine]
    ELSE shuffle(Swap(seq, k, Draw(engine, k) + 1), k + 1, NextRng(engine))

\* "move.apply(after) == board::legal" on a copy of the position
ApplyIsLegal(state, side, p) == IsLegal(state.stone, side, p)

\* the loop of a random_action that returns the first placement of space
\* without applying it
FirstLegalMove_Unchecked(seq, k, state, side) ==
    IF k > Len(seq) THEN NoAction ELSE seq[k]

\* the loop of random_action from element k on: the first placement of
\* space that applies legally to a copy of the position, else action()
RECURSIVE FirstLegalMove(_, _, _, _)
FirstLegalMove(seq, k, state, side) ==
    IF k > Len(seq) THEN NoAction
    ELSE IF ApplyIsLegal(state, side, seq[k]) THEN seq[k]
    ELSE FirstLegalMove(seq, k + 1, state, side)

RandomInit ==
    /\ method = "random"
    /\ b \in Positions
    /\ who \in {black, white}
    /\ T = 0
    /\ t_limit = 0
    /\ seed \in 0 .. 63
    /\ rng = seed
    /\ space = InitialSpace
    /\ playouts = 0
    /\ plies = 0
    /\ overdue = 0
    /\ nodes = <<>>
    /\ node = nullptr
    /\ board = b
    /\ cbw = 0
    /\ cpos = NullPos
    /\ rave = NoRave
    /\ winner = 0
    /\ i = 0
    /\ start_time = 0
    /\ now = 0
    /\ pc = "random_action"
    /\ result = NoAction

\* player::random_action(state)
RandomAction ==
    /\ pc = "random_action"
    /\ LET sh == shuffle(space, 2, rng)
       IN  /\ space' = sh.space
           /\ rng' = sh.rng
           /\ result' = FirstLegalMove(sh.space, 1, b, who)
    /\ pc' = "done"
    /\ UNCHANGED <<method, b, who, T, t_limit, seed, plies, nodes, node, board,
                   cbw, cpos, rave, winner, i, start_time, now, playouts,
                   overdue>>

RandomSpec == RandomInit /\ [][RandomAction]_vars

IsRandom == method = "random"

\* C17: the baseline random player returns the null action if and only if
\* no point is a legal placement for its side in the given position;
\* otherwise it returns a placement that is legal in that position; the
\* given position is left unchanged
C17_RandomActionLegalOrNull ==
    /\ []((IsRandom /\ pc = "done")
            => /\ result = NoAction <=> LegalSet(b.stone, who) = {}
               /\ result # NoAction => result \in LegalSet(b.stone, who))
    /\ [][IsRandom => b' = b]_vars

\* a placement returned after a shuffle that had put illegal placements
\* before it
C17_Witness ==
    /\ IsRandom /\ pc = "done"
    /\ result # NoAction /\ space[1] # result
    /\ space # InitialSpace

-----------------------------------------------------------------------------
\* Conservation of visits

\* the visits of the children k .. of node n, summed
RECURSIVE KidVisitsFrom(_, _)
KidVisitsFrom(n, k) ==
    IF k > Len(KidsIn(nodes, n)) THEN 0
    ELSE VisitsOf(KidsIn(nodes, n)[k]) + KidVisitsFrom(n, k + 1)

\* the search is between two iterations, or past the last one
BetweenIterations ==
    /\ nodes # <<>>
    /\ pc \in {"selection", "loop_test", "best_move", "treePolicy",
               "time_check", "best_child", "done"}

\* C18: after every complete iteration root.visits equals the number of
\* iterations performed so far, and every expanded node satisfies
\* visits == 1 + the sum of the visits of its children
C18_VisitsConserved ==
    BetweenIterations
        => /\ VisitsOf(root) = playouts
           /\ \A n \in NodeIds :
                 KidsIn(nodes, n) # <<>>
                     => VisitsOf(n) = 1 + KidVisitsFrom(n, 1)

\* some iterations done, the root and a node below it expanded
C18_Witness ==
    /\ BetweenIterations /\ playouts >= 4
    /\ \E n \in NodeIds \ {root} :
         KidsIn(nodes, n) # <<>> /\ KidVisitsFrom(n, 1) >= 1

-----------------------------------------------------------------------------
\* The move selection of MCTSAgent::take_action

\* C19: whenever MCTSAgent::take_action reaches its move selection, at least
\* one child of the root has visits > 0, so the map built by
\* get_children_visits is not empty and max_element does not yield the end
\* iterator; the index returned is that of a legal move of the root
\* position, within the points of the board
C19_MoveSelectionDefined ==
    /\ []((IsAgent /\ pc = "best_move")
            => /\ \E c \in RootKids : VisitsOf(c) > 0
               /\ DOMAIN get_children_visits(nodes, root) # {}
               /\ AgentBestMoves(nodes) \subseteq RootLegal)
    /\ [][(IsAgent /\ pc = "best_move")
            => /\ result' \in RootLegal
               /\ result' \in 0 .. (NumPoints - 1)]_vars

\* a move returned by the selection while a child of the root was left out
\* of the map for want of visits
C19_Witness ==
    /\ IsAgent /\ pc = "done" /\ playouts >= 1
    /\ result \in RootLegal
    /\ \E c \in RootKids : VisitsOf(c) = 0
    /\ \E c \in RootKids : VisitsOf(c) > 0 /\ PosOf(c) = result

-----------------------------------------------------------------------------
\* Unvisited children first (class Node)

\* the indices of the children of node n without a visit
UnvisitedKids(n) ==
    {k \in 1 .. Len(nodes[n].children) : nodes[nodes[n].children[k]].visits = 0}

FirstUnvisitedKid(n) ==
    nodes[n].children[CHOOSE k \in UnvisitedKids(n) :
                         \A j \in UnvisitedKids(n) : k <= j]

\* C20: Node::getBestChild returns the first child in child order with
\* visits == 0 whenever there is one, so in every tree player::mcts_action
\* reaches no child has visits >= 2 while a sibling still has visits == 0,
\* and getBestChild never returns null for a node with children
C20_UnvisitedChildrenFirst ==
    (IsPlayer /\ nodes # <<>>)
        => \A n \in NodeIds :
              nodes[n].children # <<>>
                  => /\ getBestChild(nodes, n) # nullptr
                     /\ UnvisitedKids(n) # {}
                           => /\ getBestChild(nodes, n) = FirstUnvisitedKid(n)
                              /\ \A k \in 1 .. Len(nodes[n].children) :
                                    nodes[nodes[n].children[k]].visits < 2

\* a node that has seen all its children and one of them twice, and a node
\* with a child visited and a child not yet visited
C20_Witness ==
    /\ IsPlayer /\ nodes # <<>>
    /\ \E n \in NodeIds :
         /\ Len(nodes[n].children) >= 2 /\ UnvisitedKids(n) = {}
         /\ \E k \in 1 .. Len(nodes[n].children) :
               nodes[nodes[n].children[k]].visits >= 2
    /\ \E n \in NodeIds :
         /\ UnvisitedKids(n) # {}
         /\ \E k \in 1 .. Len(nodes[n].children) :
               nodes[nodes[n].children[k]].visits = 1

====
